---------------------------- MODULE Spec2Model ----------------------------
(***************************************************************************)
(* VAWT control firmware (firmware/platformio): the 1 Hz control loop of   *)
(* src/main.cpp with the SafetyMonitor, TurbineStateMachine, MPPTController *)
(* and DataLogger objects it drives.                                        *)
(*                                                                         *)
(* Fixed-point units used for the float quantities of the source:          *)
(*   wind speed      1/819 m/s  (readWindSpeed: raw*25/4095 = raw*5/819)    *)
(*   rpm             0.1 rpm                                               *)
(*   voltage         0.1 V          current   0.1 A                         *)
(*   power           0.01 W  (voltage * current)                           *)
(*   duty cycle      1e-5    (0.3 = 30000, BASE_STEP_SIZE 0.02 = 2000)      *)
(*   integrator      1e-5                                                  *)
(*                                                                         *)
(* lambda and cp are computed from the sample and only handed to the       *)
(* logger and to Serial; they do not feed the controller and are left out, *)
(* as is everything written to Serial.  readBusVoltage / readBusCurrent are *)
(* placeholders for the INA226 read, so their values are inputs.  A pass of *)
(* loop() takes LoopStepMs of millis(); micros() at a tachometer edge is an *)
(* input of the ISR.                                                       *)
(***************************************************************************)
EXTENDS Integers, Sequences, FiniteSets, TLC

VARIABLES
    pc,             \* "setup" before setup() has run, "loop" afterwards, "unit" in the MPPT unit specification
    clock,          \* millis() at the start of the next pass of loop()
    lastSampleTime, \* static local of loop()
    stateMachine,   \* TurbineStateMachine: _currentState, _previousState, _stateEntryTime, _lastTransition
    safety,         \* SafetyMonitor: the three flags and _lastCheckTime
    mppt,           \* MPPTController fields
    integrator,     \* static local of calculateSoftStall()
    ledcDuty,       \* value last written with ledcWrite(0, .), 0..255
    brakePin,       \* level last written to BRAKE_RELAY_PIN
    pulsePeriod,    \* ISR-shared
    lastPulseTime,  \* ISR-shared
    dataLogger,     \* DataLogger: _sdInitialized and the records appended to _buffer
    sdOk,           \* what SD.begin() returned in setup()
    sample,         \* the locals of the last tick of loop(), the regime it began in and the order of its steps
    tickCount,      \* ticks executed so far
    pulseCount,     \* tachometer edges handled so far
    lastCall,       \* the MPPTController operation called last (unit specification)
    windGen,        \* wind sequence fed to update() in the MPPT unit specification
    rpmCall         \* calculateRPM(): its position and locals (step-by-step specification)

vars == <<pc, clock, lastSampleTime, stateMachine, safety, mppt, integrator,
          ledcDuty, brakePin, pulsePeriod, lastPulseTime, dataLogger, sdOk,
          sample, tickCount, pulseCount, lastCall, windGen, rpmCall>>

-----------------------------------------------------------------------------
(* Bounds of the model *)

MaxTicks == 4
MaxPulses == 1
LoopStepMs == 500
MaxEdges == 3

-----------------------------------------------------------------------------
(* Program constants *)

WindScale == 819
CutInWind == 2457
StallWind == 9828
RATED_POWER == 50000
RatedPower95 == 47500
RatedPower80 == 40000
RATED_RPM == 1800
OVERSPEED_RPM == 2500
OVERVOLTAGE == 600
OVERCURRENT == 300
SAMPLE_PERIOD == 1000
WIND_BUFFER_SIZE == 100
BASE_STEP_SIZE == 2000
MIN_STEP_SIZE == 500
INIT_DUTY == 30000
DUTY_MIN == 10000
DUTY_MAX == 90000
DutyScale == 100000
SOFT_STALL_BIAS == 50000
SOFT_STALL_KP == 10
LEDC_MAX == 255
RpmNumerator == 600000000
RPM_INF == 2147483647

LOW == "LOW"
HIGH == "HIGH"

STATE_IDLE == "IDLE"
STATE_STANDBY == "STANDBY"
STATE_STARTUP == "STARTUP"
STATE_MPPT == "MPPT"
STATE_POWER_REGULATION == "POWER_REG"
STATE_STALL == "STALL"
STATE_FAULT == "FAULT"

TurbineState == {STATE_IDLE, STATE_STANDBY, STATE_STARTUP, STATE_MPPT,
                 STATE_POWER_REGULATION, STATE_STALL, STATE_FAULT}

-----------------------------------------------------------------------------
(* Inputs supplied by the hardware *)

\* analogRead(35) values: about 2.0, 5.0 and 13.0 m/s
RawWind == {328, 820, 2130}

\* bus voltage (0.1 V) and bus current (0.1 A) returned by the INA226:
\* 100 W, 400 W, 475 W, 480 W, an overvoltage and an overcurrent
Electrical == {<<500, 20>>, <<500, 80>>, <<500, 95>>, <<500, 96>>,
               <<610, 20>>, <<500, 310>>}

\* intervals between tachometer edges in microseconds: 260, 200 and 170 rpm
PulsePeriods == {230769, 300000, 352941}

-----------------------------------------------------------------------------
(* Pure helpers *)

constrain(amt, low, high) ==
    IF amt < low THEN low ELSE IF amt > high THEN high ELSE amt

readWindSpeed(raw) == raw * 5

calculateRPM(period) ==
    IF period = 0 THEN 0 ELSE RpmNumerator \div period

LedcOf(duty) == (duty * LEDC_MAX) \div DutyScale

(* millis() is a 32-bit unsigned long.  The model holds such a word as the  *)
(* two's-complement integer with the same bits: u < 2^31 is held as u, and  *)
(* u >= 2^31 as u - 2^32, so that the word after 2^32 - 1 (held as -1) is 0. *)

\* the word t milliseconds after the word a
ULongAdd(a, t) == a + t

\* (now - last) >= period in unsigned long arithmetic, for words less than
\* 2^31 apart: a negative difference is a word of 2^31 or more
ElapsedAtLeast(now, last, period) ==
    LET d == now - last IN d < 0 \/ d >= period

\* a <= b as unsigned long values (what %lu prints)
ULongLeq(a, b) ==
    IF (a < 0) = (b < 0) THEN a <= b ELSE b < 0

-----------------------------------------------------------------------------
(* SafetyMonitor *)

SafetyMonitorInit ==
    [overspeedFlag |-> FALSE, overvoltageFlag |-> FALSE,
     overcurrentFlag |-> FALSE, lastCheckTime |-> 0]

\* SafetyMonitor::check: the monitor after the call
SafetyCheck(s, rpm, voltage, current, now) ==
    [overspeedFlag   |-> (rpm > OVERSPEED_RPM),
     overvoltageFlag |-> (voltage > OVERVOLTAGE),
     overcurrentFlag |-> (current > OVERCURRENT),
     lastCheckTime   |-> now]

\* SafetyMonitor::check: the value returned
SafetyOk(s) == ~(s.overspeedFlag \/ s.overvoltageFlag \/ s.overcurrentFlag)

SafetyReset(s) ==
    [s EXCEPT !.overspeedFlag = FALSE, !.overvoltageFlag = FALSE,
              !.overcurrentFlag = FALSE]

-----------------------------------------------------------------------------
(* TurbineStateMachine *)

\* _lastTransition is not set by the constructor; the object has static
\* storage, so its bytes are zero: timestamp 0, both states the enumerator 0.
StateMachineInit ==
    [currentState |-> STATE_IDLE, previousState |-> STATE_IDLE,
     stateEntryTime |-> 0,
     lastTransition |-> [timestamp |-> 0, fromState |-> STATE_IDLE,
                         toState |-> STATE_IDLE, reason |-> ""]]

setState(sm, newState, now) ==
    IF newState # sm.currentState
    THEN [sm EXCEPT !.previousState = sm.currentState,
                    !.currentState = newState,
                    !.stateEntryTime = now]
    ELSE sm

\* getState returning the regime before the last transition
getStatePrevious(sm) == sm.previousState

\* TurbineStateMachine::getState
getState(sm) == sm.currentState

logTransition(sm, reason, now) ==
    [sm EXCEPT !.lastTransition =
        [timestamp |-> now, fromState |-> sm.previousState,
         toState |-> sm.currentState, reason |-> reason]]

-----------------------------------------------------------------------------
(* MPPTController *)

BufferIndices == 0 .. (WIND_BUFFER_SIZE - 1)

ZeroBuffer == [i \in BufferIndices |-> 0]

MPPTInit ==
    [dutyCycle |-> INIT_DUTY, lastPower |-> 0, direction |-> 1,
     windSpeedBuffer |-> ZeroBuffer, bufferIndex |-> 0, sampleCount |-> 0]

RECURSIVE SumBuffer(_, _, _)
\* sum of buf[lo] .. buf[hi - 1], by halves to keep the evaluation shallow
SumBuffer(buf, lo, hi) ==
    IF hi <= lo THEN 0
    ELSE IF hi = lo + 1 THEN buf[lo]
    ELSE LET mid == (lo + hi) \div 2
         IN  SumBuffer(buf, lo, mid) + SumBuffer(buf, mid, hi)

\* a sum kept as quot * WIND_BUFFER_SIZE + rem with rem < WIND_BUFFER_SIZE,
\* so that a sum of squares stays within the integers TLC computes with
SplitSum(x, y) ==
    [quot |-> x.quot + y.quot + (x.rem + y.rem) \div WIND_BUFFER_SIZE,
     rem |-> (x.rem + y.rem) % WIND_BUFFER_SIZE]

RECURSIVE SumSquares(_, _, _, _)
\* sum of (buf[i] - mean)^2 for lo <= i < hi
SumSquares(buf, mean, lo, hi) ==
    IF hi <= lo THEN [quot |-> 0, rem |-> 0]
    ELSE IF hi = lo + 1
    THEN LET diff == buf[lo] - mean
         IN  [quot |-> (diff * diff) \div WIND_BUFFER_SIZE,
              rem |-> (diff * diff) % WIND_BUFFER_SIZE]
    ELSE LET mid == (lo + hi) \div 2
         IN  SplitSum(SumSquares(buf, mean, lo, mid),
                      SumSquares(buf, mean, mid, hi))

RECURSIVE SqrtSearch(_, _, _)
\* the largest r in lo..hi with r*r <= x
SqrtSearch(x, lo, hi) ==
    IF lo >= hi THEN lo
    ELSE LET mid == (lo + hi + 1) \div 2
         IN  IF mid * mid <= x THEN SqrtSearch(x, mid, hi)
             ELSE SqrtSearch(x, lo, mid - 1)

\* sqrt() rounded down to the unit of its argument
Sqrt(x) == SqrtSearch(x, 0, 32768)

\* calculateAdaptiveStep with the variance in place of its square root
calculateAdaptiveStepNoSqrt(buf, sampleCount) ==
    IF sampleCount < WIND_BUFFER_SIZE THEN BASE_STEP_SIZE
    ELSE LET mean == SumBuffer(buf, 0, WIND_BUFFER_SIZE) \div WIND_BUFFER_SIZE
             variance == SumSquares(buf, mean, 0, WIND_BUFFER_SIZE)
             sigma == variance.quot \div WindScale
             adaptiveStep == (BASE_STEP_SIZE * 2 * WindScale) \div (2 * WindScale + sigma)
         IN  IF adaptiveStep > MIN_STEP_SIZE THEN adaptiveStep ELSE MIN_STEP_SIZE

\* MPPTController::calculateAdaptiveStep on the buffer and count it reads.
\* sigma is in 1/819 m/s, so 1 + 0.5*sigma = (2*819 + sigma) / (2*819).
calculateAdaptiveStep(buf, sampleCount) ==
    IF sampleCount < WIND_BUFFER_SIZE THEN BASE_STEP_SIZE
    ELSE LET mean == SumBuffer(buf, 0, WIND_BUFFER_SIZE) \div WIND_BUFFER_SIZE
             variance == SumSquares(buf, mean, 0, WIND_BUFFER_SIZE)
             sigma == Sqrt(variance.quot)
             adaptiveStep == (BASE_STEP_SIZE * 2 * WindScale) \div (2 * WindScale + sigma)
         IN  IF adaptiveStep > MIN_STEP_SIZE THEN adaptiveStep ELSE MIN_STEP_SIZE


\* MPPTUpdate without the constrain() of the duty cycle
MPPTUpdateNoClamp(m, power, windSpeed) ==
    LET buf == [m.windSpeedBuffer EXCEPT ![m.bufferIndex] = windSpeed]
        idx == (m.bufferIndex + 1) % WIND_BUFFER_SIZE
        cnt == IF m.sampleCount < WIND_BUFFER_SIZE
               THEN m.sampleCount + 1 ELSE m.sampleCount
        stepSize == calculateAdaptiveStep(buf, cnt)
        dir == IF power > m.lastPower THEN m.direction ELSE -m.direction
    IN  [dutyCycle |-> m.dutyCycle + dir * stepSize,
         lastPower |-> power, direction |-> dir,
         windSpeedBuffer |-> buf, bufferIndex |-> idx, sampleCount |-> cnt]

\* MPPTController::update: the controller after the call (the value returned
\* is its dutyCycle)
MPPTUpdate(m, power, windSpeed) ==
    LET buf == [m.windSpeedBuffer EXCEPT ![m.bufferIndex] = windSpeed]
        idx == (m.bufferIndex + 1) % WIND_BUFFER_SIZE
        cnt == IF m.sampleCount < WIND_BUFFER_SIZE
               THEN m.sampleCount + 1 ELSE m.sampleCount
        stepSize == calculateAdaptiveStep(buf, cnt)
        dir == IF power > m.lastPower THEN m.direction ELSE -m.direction
    IN  [dutyCycle |-> constrain(m.dutyCycle + dir * stepSize, DUTY_MIN, DUTY_MAX),
         lastPower |-> power, direction |-> dir,
         windSpeedBuffer |-> buf, bufferIndex |-> idx, sampleCount |-> cnt]

MPPTReset(m) ==
    [dutyCycle |-> INIT_DUTY, lastPower |-> 0, direction |-> 1,
     windSpeedBuffer |-> ZeroBuffer, bufferIndex |-> 0, sampleCount |-> 0]

-----------------------------------------------------------------------------
(* DataLogger *)

\* begin() is the only place that sets _sdInitialized
DataLoggerInit == [sdInitialized |-> FALSE, records |-> <<>>]

\* DataLogger::log: the rows handed to _buffer, as (timestamp, state) pairs
DataLoggerLog(d, timestamp, state) ==
    IF ~d.sdInitialized THEN d
    ELSE [d EXCEPT !.records = Append(@, [timestamp |-> timestamp, state |-> state])]

-----------------------------------------------------------------------------
(* main.cpp: control functions.  A controller value c groups what the      *)
(* handlers of loop() read and write: the state machine, the MPPT          *)
(* controller, the soft-stall integrator, the PWM duty and the brake pin.  *)
(* c.events lists the steps of the tick in the order the code runs them:    *)
(* "sample" (sensor reads), "safety" (safety.check), "eval" (a transition   *)
(* condition is tested) and "write" (an actuator is written).               *)

\* ledcWrite(0, value)
ledcWrite(c, value) == [c EXCEPT !.ledc = value, !.events = Append(@, "write")]

\* the test of an if () that guards a setState() call
Evaluated(c) == [c EXCEPT !.events = Append(@, "eval")]

engageDumpLoad(c) ==
    [c EXCEPT !.ledc = LEDC_MAX, !.brake = LOW, !.events = Append(@, "write")]

engageBrake(c) ==
    [c EXCEPT !.brake = HIGH, !.ledc = 0, !.events = Append(@, "write")]

\* calculateSoftStall: the integrator after the call
SoftStallIntegrator(integ, power) == integ + (RATED_POWER - power)

\* calculateSoftStall: the duty returned, given the integrator after the call
SoftStallDuty(integ, power) ==
    constrain(SOFT_STALL_BIAS + SOFT_STALL_KP * (RATED_POWER - power) + integ,
              DUTY_MIN, DUTY_MAX)

\* SafetyStep without the forced transition: the brake alone is engaged
SafetyStepNoFault(c, smp, now) ==
    IF ~smp.safe THEN engageBrake(Evaluated(c)) ELSE Evaluated(c)

\* loop(): if (!safe) { setState(STATE_FAULT); engageBrake(); }
SafetyStep(c, smp, now) ==
    LET c1 == Evaluated(c)
    IN  IF ~smp.safe
        THEN engageBrake([c1 EXCEPT !.sm = setState(c1.sm, STATE_FAULT, now)])
        ELSE c1

HandleStandby(c, smp, now) ==
    LET c1 == Evaluated(c)
    IN  IF smp.windSpeed > CutInWind /\ smp.safe
        THEN [c1 EXCEPT !.sm = setState(c1.sm, STATE_MPPT, now)]
        ELSE c1

\* HandleMPPT with >= in the power test
HandleMPPTAtLeast(c, smp, now) ==
    LET m == MPPTUpdate(c.mppt, smp.power, smp.windSpeed)
        c1 == ledcWrite([c EXCEPT !.mppt = m], LedcOf(m.dutyCycle))
        c2 == Evaluated(c1)
        sm1 == IF smp.power >= RatedPower95
               THEN setState(c2.sm, STATE_POWER_REGULATION, now) ELSE c2.sm
        c3 == Evaluated(c2)
        sm2 == IF smp.windSpeed > StallWind
               THEN setState(sm1, STATE_STALL, now) ELSE sm1
    IN  [c3 EXCEPT !.sm = sm2]

\* HandleMPPT with the wind test as the else branch of the power test
HandleMPPTElseStall(c, smp, now) ==
    LET m == MPPTUpdate(c.mppt, smp.power, smp.windSpeed)
        c1 == ledcWrite([c EXCEPT !.mppt = m], LedcOf(m.dutyCycle))
        c2 == Evaluated(c1)
    IN  IF smp.power > RatedPower95
        THEN [c2 EXCEPT !.sm = setState(c2.sm, STATE_POWER_REGULATION, now)]
        ELSE LET c3 == Evaluated(c2)
             IN  IF smp.windSpeed > StallWind
                 THEN [c3 EXCEPT !.sm = setState(c3.sm, STATE_STALL, now)]
                 ELSE c3

HandleMPPT(c, smp, now) ==
    LET m == MPPTUpdate(c.mppt, smp.power, smp.windSpeed)
        c1 == ledcWrite([c EXCEPT !.mppt = m], LedcOf(m.dutyCycle))
        c2 == Evaluated(c1)
        sm1 == IF smp.power > RatedPower95
               THEN setState(c2.sm, STATE_POWER_REGULATION, now) ELSE c2.sm
        c3 == Evaluated(c2)
        sm2 == IF smp.windSpeed > StallWind
               THEN setState(sm1, STATE_STALL, now) ELSE sm1
    IN  [c3 EXCEPT !.sm = sm2]

\* HandlePowerRegulation with <= in the power test
HandlePowerRegulationAtMost(c, smp, now) ==
    LET integ == SoftStallIntegrator(c.integrator, smp.power)
        softStallDuty == SoftStallDuty(integ, smp.power)
        c1 == ledcWrite([c EXCEPT !.integrator = integ], LedcOf(softStallDuty))
        c2 == Evaluated(c1)
    IN  IF smp.power <= RatedPower80
        THEN [c2 EXCEPT !.sm = setState(c2.sm, STATE_MPPT, now)]
        ELSE c2

HandlePowerRegulation(c, smp, now) ==
    LET integ == SoftStallIntegrator(c.integrator, smp.power)
        softStallDuty == SoftStallDuty(integ, smp.power)
        c1 == ledcWrite([c EXCEPT !.integrator = integ], LedcOf(softStallDuty))
        c2 == Evaluated(c1)
    IN  IF smp.power < RatedPower80
        THEN [c2 EXCEPT !.sm = setState(c2.sm, STATE_MPPT, now)]
        ELSE c2

\* HandleStall braking the rotor in place of the dump load
HandleStallBrake(c, smp, now) ==
    LET c1 == Evaluated(engageBrake(c))
    IN  IF smp.rpm < RATED_RPM
        THEN [c1 EXCEPT !.sm = setState(c1.sm, STATE_STANDBY, now)]
        ELSE c1

HandleStall(c, smp, now) ==
    LET c1 == Evaluated(engageDumpLoad(c))
    IN  IF smp.rpm < RATED_RPM
        THEN [c1 EXCEPT !.sm = setState(c1.sm, STATE_STANDBY, now)]
        ELSE c1

\* HandleFault with an automatic recovery once the sample is safe again
HandleFaultRecover(c, smp, now) ==
    IF smp.safe
    THEN [c EXCEPT !.sm = setState(c.sm, STATE_STANDBY, now)]
    ELSE ledcWrite(engageBrake(c), 0)

HandleFault(c, smp, now) == ledcWrite(engageBrake(c), 0)

\* loop(): switch (currentState); IDLE and STARTUP have no case
Dispatch(c, currentState, smp, now) ==
    CASE currentState = STATE_STANDBY -> HandleStandby(c, smp, now)
      [] currentState = STATE_MPPT -> HandleMPPT(c, smp, now)
      [] currentState = STATE_POWER_REGULATION -> HandlePowerRegulation(c, smp, now)
      [] currentState = STATE_STALL -> HandleStall(c, smp, now)
      [] currentState = STATE_FAULT -> HandleFault(c, smp, now)
      [] OTHER -> c

\* loop(): the body of the 1 Hz branch from the safety check to the switch
LoopBody(c, smp, now) ==
    LET c1 == SafetyStep(c, smp, now)
    IN  Dispatch(c1, getState(c1.sm), smp, now)

NoSample ==
    [timestamp |-> 0, state |-> STATE_IDLE, windSpeed |-> 0, rpm |-> 0,
     voltage |-> 0, current |-> 0, power |-> 0, safe |-> TRUE,
     startState |-> STATE_IDLE, events |-> <<>>]

NoWind == [base |-> 0, delta |-> 0]

-----------------------------------------------------------------------------
(* The firmware: setup(), loop() and the tachometer ISR *)

\* no call of calculateRPM() in progress
NoRpmCall == [pos |-> "idle", tested |-> 0, period |-> 0, divided |-> FALSE, rpm |-> 0]

Init ==
    /\ pc = "setup"
    /\ clock = 0
    /\ lastSampleTime = 0
    /\ stateMachine = StateMachineInit
    /\ safety = SafetyMonitorInit
    /\ mppt = MPPTInit
    /\ integrator = 0
    /\ ledcDuty = 0
    /\ brakePin = LOW
    /\ pulsePeriod = 0
    /\ lastPulseTime = 0
    /\ dataLogger = DataLoggerInit
    /\ sdOk = TRUE
    /\ sample = NoSample
    /\ tickCount = 0
    /\ pulseCount = 0
    /\ lastCall = "construct"
    /\ windGen = NoWind
    /\ rpmCall = NoRpmCall

\* setup(): the state machine after it, given what SD.begin() returned
SetupStateMachine(sm, ok, now) ==
    LET sm1 == IF ~ok THEN setState(sm, STATE_FAULT, now) ELSE sm
    IN  setState(sm1, STATE_STANDBY, now)

Setup ==
    /\ pc = "setup"
    /\ \E ok \in BOOLEAN :
          /\ sdOk' = ok
          /\ stateMachine' = SetupStateMachine(stateMachine, ok, clock)
    /\ pc' = "loop"
    /\ lastCall' = lastCall
    /\ UNCHANGED <<clock, lastSampleTime, safety, mppt, integrator, ledcDuty,
                   brakePin, pulsePeriod, lastPulseTime, dataLogger, sample,
                   tickCount, pulseCount, windGen, rpmCall>>

\* rpmISR(): micros() is p microseconds after the previous edge
RpmISR ==
    /\ pc = "loop"
    /\ pulseCount < MaxPulses
    /\ \E p \in PulsePeriods :
          LET now == lastPulseTime + p
          IN  /\ pulsePeriod' = now - lastPulseTime
              /\ lastPulseTime' = now
    /\ pulseCount' = pulseCount + 1
    /\ lastCall' = lastCall
    /\ UNCHANGED <<pc, clock, lastSampleTime, stateMachine, safety, mppt,
                   integrator, ledcDuty, brakePin, dataLogger, sdOk, sample,
                   tickCount, windGen, rpmCall>>

\* loop() when the 1 Hz branch is not taken: flush() and delay() only
LoopIdle ==
    /\ pc = "loop"
    /\ ~ElapsedAtLeast(clock, lastSampleTime, SAMPLE_PERIOD)
    /\ clock' = ULongAdd(clock, LoopStepMs)
    /\ lastCall' = lastCall
    /\ UNCHANGED <<pc, lastSampleTime, stateMachine, safety, mppt, integrator,
                   ledcDuty, brakePin, pulsePeriod, lastPulseTime, dataLogger,
                   sdOk, sample, tickCount, pulseCount, windGen, rpmCall>>

\* loop() when the 1 Hz branch is taken: one tick of the controller, with
\* the bus voltage and current drawn from the pairs of electrical
TickOn(electrical) ==
    /\ pc = "loop"
    /\ tickCount < MaxTicks
    /\ ElapsedAtLeast(clock, lastSampleTime, SAMPLE_PERIOD)
    /\ \E raw \in RawWind, vi \in electrical :
          LET now == clock
              voltage == vi[1]
              current == vi[2]
              windSpeed == readWindSpeed(raw)
              rpm == calculateRPM(pulsePeriod)
              power == voltage * current
              s1 == SafetyCheck(safety, rpm, voltage, current, now)
              safe == SafetyOk(s1)
              smp == [timestamp |-> now, windSpeed |-> windSpeed, rpm |-> rpm,
                      voltage |-> voltage, current |-> current,
                      power |-> power, safe |-> safe]
              c0 == [sm |-> stateMachine, mppt |-> mppt,
                     integrator |-> integrator, ledc |-> ledcDuty,
                     brake |-> brakePin, events |-> <<"sample", "safety">>]
              c1 == SafetyStep(c0, smp, now)
              currentState == getState(c1.sm)
              c2 == LoopBody(c0, smp, now)
          IN  /\ safety' = s1
              /\ stateMachine' = c2.sm
              /\ mppt' = c2.mppt
              /\ integrator' = c2.integrator
              /\ ledcDuty' = c2.ledc
              /\ brakePin' = c2.brake
              /\ dataLogger' = DataLoggerLog(dataLogger, now, currentState)
              /\ sample' = [timestamp |-> now, state |-> currentState,
                            windSpeed |-> windSpeed, rpm |-> rpm,
                            voltage |-> voltage, current |-> current,
                            power |-> power, safe |-> safe,
                            startState |-> stateMachine.currentState,
                            events |-> c2.events]
    /\ lastSampleTime' = clock
    /\ clock' = ULongAdd(clock, LoopStepMs)
    /\ tickCount' = tickCount + 1
    /\ lastCall' = lastCall
    /\ UNCHANGED <<pc, pulsePeriod, lastPulseTime, sdOk, pulseCount, windGen, rpmCall>>

Tick == TickOn(Electrical)

Next == Setup \/ RpmISR \/ LoopIdle \/ Tick

Spec == Init /\ [][Next]_vars

-----------------------------------------------------------------------------
(* The firmware around the wrap of millis(), 2^32 ms after boot.  The run   *)
(* begins in the state the firmware is in after idling in Standby (wind     *)
(* below cut-in, no tachometer edge, safe samples) up to the last tick but  *)
(* one before the wrap.                                                     *)

\* the distance of two ticks: the first multiple of the loop step that
\* reaches the sample period
TickSpacing == LoopStepMs * ((SAMPLE_PERIOD + LoopStepMs - 1) \div LoopStepMs)

\* 2^32 modulo TickSpacing: ticks fall on the multiples of TickSpacing
WrapRemainder ==
    (2 * (((2147483647 % TickSpacing) + 1) % TickSpacing)) % TickSpacing

\* millis() at the last tick but one before the wrap
WrapStart == 0 - (WrapRemainder + TickSpacing)

\* the sample of a tick at time now with 2.0 m/s wind, 50.0 V and 2.0 A
CalmSample(now) ==
    [timestamp |-> now, windSpeed |-> readWindSpeed(328), rpm |-> calculateRPM(0),
     voltage |-> 500, current |-> 20, power |-> 500 * 20, safe |-> TRUE]

\* the controller after setup() and a calm tick
CalmController(now) ==
    LoopBody([sm |-> SetupStateMachine(StateMachineInit, TRUE, 0),
              mppt |-> MPPTInit, integrator |-> 0, ledc |-> 0, brake |-> LOW,
              events |-> <<"sample", "safety">>],
             CalmSample(now), now)

InitWrap ==
    /\ pc = "loop"
    /\ clock = ULongAdd(WrapStart, LoopStepMs)
    /\ lastSampleTime = WrapStart
    /\ stateMachine = CalmController(WrapStart).sm
    /\ safety = SafetyCheck(SafetyMonitorInit, 0, 500, 20, WrapStart)
    /\ mppt = CalmController(WrapStart).mppt
    /\ integrator = CalmController(WrapStart).integrator
    /\ ledcDuty = CalmController(WrapStart).ledc
    /\ brakePin = CalmController(WrapStart).brake
    /\ pulsePeriod = 0
    /\ lastPulseTime = 0
    /\ dataLogger = DataLoggerInit
    /\ sdOk = TRUE
    /\ sample = [timestamp |-> WrapStart, state |-> STATE_STANDBY,
                 windSpeed |-> CalmSample(WrapStart).windSpeed,
                 rpm |-> CalmSample(WrapStart).rpm,
                 voltage |-> CalmSample(WrapStart).voltage,
                 current |-> CalmSample(WrapStart).current,
                 power |-> CalmSample(WrapStart).power,
                 safe |-> CalmSample(WrapStart).safe,
                 startState |-> STATE_STANDBY,
                 events |-> CalmController(WrapStart).events]
    /\ tickCount = 1
    /\ pulseCount = 0
    /\ lastCall = "construct"
    /\ windGen = NoWind
    /\ rpmCall = NoRpmCall

NextWrap == RpmISR \/ LoopIdle \/ Tick

SpecWrap == InitWrap /\ [][NextWrap]_vars

-----------------------------------------------------------------------------
(* calculateRPM() statement by statement, with rpmISR() free to run between *)
(* any two statements: pulsePeriod is volatile, so the test and the copy    *)
(* are two loads.  The run begins when setup() has returned.                *)

\* micros() - lastPulseTime at an edge; 0 is an edge in the same microsecond
\* as the previous one, or a multiple of 2^32 us after it
EdgeGaps == PulsePeriods \cup {0}

\* 1000000.0 / period * 60.0 in 0.1 rpm; the float division by 0 gives +inf
RpmQuotient(period) ==
    IF period = 0 THEN RPM_INF ELSE RpmNumerator \div period

InitRpm ==
    /\ pc = "loop"
    /\ clock = 0
    /\ lastSampleTime = 0
    /\ stateMachine = SetupStateMachine(StateMachineInit, TRUE, 0)
    /\ safety = SafetyMonitorInit
    /\ mppt = MPPTInit
    /\ integrator = 0
    /\ ledcDuty = 0
    /\ brakePin = LOW
    /\ pulsePeriod = 0
    /\ lastPulseTime = 0
    /\ dataLogger = DataLoggerInit
    /\ sdOk = TRUE
    /\ sample = NoSample
    /\ tickCount = 0
    /\ pulseCount = 0
    /\ lastCall = "construct"
    /\ windGen = NoWind
    /\ rpmCall = NoRpmCall

\* rpmISR() on an edge gap microseconds after the previous one
RpmEdge ==
    /\ pulseCount < MaxEdges
    /\ \E gap \in EdgeGaps :
          /\ pulsePeriod' = gap
          /\ lastPulseTime' = lastPulseTime + gap
    /\ pulseCount' = pulseCount + 1
    /\ UNCHANGED <<pc, clock, lastSampleTime, stateMachine, safety, mppt,
                   integrator, ledcDuty, brakePin, dataLogger, sdOk, sample,
                   tickCount, lastCall, windGen, rpmCall>>

\* calculateRPM(): if (pulsePeriod == 0) return 0;
RpmTest ==
    /\ rpmCall.pos = "idle"
    /\ rpmCall' = IF pulsePeriod = 0
                  THEN [rpmCall EXCEPT !.pos = "done", !.tested = pulsePeriod,
                                       !.divided = FALSE, !.rpm = 0]
                  ELSE [rpmCall EXCEPT !.pos = "tested", !.tested = pulsePeriod]
    /\ UNCHANGED <<pc, clock, lastSampleTime, stateMachine, safety, mppt,
                   integrator, ledcDuty, brakePin, pulsePeriod, lastPulseTime,
                   dataLogger, sdOk, sample, tickCount, pulseCount, lastCall,
                   windGen>>

\* calculateRPM(): period = pulsePeriod; freq = 1000000.0 / period; return
RpmCopy ==
    /\ rpmCall.pos = "tested"
    /\ rpmCall' = [rpmCall EXCEPT !.pos = "done", !.period = pulsePeriod,
                                  !.divided = TRUE,
                                  !.rpm = RpmQuotient(pulsePeriod)]
    /\ UNCHANGED <<pc, clock, lastSampleTime, stateMachine, safety, mppt,
                   integrator, ledcDuty, brakePin, pulsePeriod, lastPulseTime,
                   dataLogger, sdOk, sample, tickCount, pulseCount, lastCall,
                   windGen>>

\* the caller has the value: the next call can begin
RpmReturn ==
    /\ rpmCall.pos = "done"
    /\ rpmCall' = [rpmCall EXCEPT !.pos = "idle"]
    /\ UNCHANGED <<pc, clock, lastSampleTime, stateMachine, safety, mppt,
                   integrator, ledcDuty, brakePin, pulsePeriod, lastPulseTime,
                   dataLogger, sdOk, sample, tickCount, pulseCount, lastCall,
                   windGen>>

NextRpm == RpmEdge \/ RpmTest \/ RpmCopy \/ RpmReturn

SpecRpm == InitRpm /\ [][NextRpm]_vars

-----------------------------------------------------------------------------
(* The firmware after the rotor has stopped in Stall.  The run begins in    *)
(* the state the firmware is in after three ticks of 13.0 m/s wind with     *)
(* tachometer edges 300 ms apart (200 rpm): Standby -> MPPT, MPPT -> Stall, *)
(* and one tick in Stall.  No edge arrives after that tick.                 *)

\* the locals of a tick at time now with 13.0 m/s wind, 200 rpm, 50.0 V, 2.0 A
GustSample(now) ==
    [timestamp |-> now, windSpeed |-> readWindSpeed(2130),
     rpm |-> calculateRPM(300000),
     voltage |-> 500, current |-> 20, power |-> 500 * 20, safe |-> TRUE]

\* the controller value a tick starts from, given the one the last tick left
TickStart(c) == [c EXCEPT !.events = <<"sample", "safety">>]

\* the controller after setup() and n ticks of GustSample, TickSpacing apart
RECURSIVE GustController(_)
GustController(n) ==
    IF n = 0
    THEN [sm |-> SetupStateMachine(StateMachineInit, TRUE, 0),
          mppt |-> MPPTInit, integrator |-> 0, ledc |-> 0, brake |-> LOW,
          events |-> <<>>]
    ELSE LoopBody(TickStart(GustController(n - 1)),
                  GustSample(n * TickSpacing), n * TickSpacing)

\* millis() at the last tick before which an edge arrived
StaleStart == 3 * TickSpacing

InitStale ==
    /\ pc = "loop"
    /\ clock = ULongAdd(StaleStart, LoopStepMs)
    /\ lastSampleTime = StaleStart
    /\ stateMachine = GustController(3).sm
    /\ safety = SafetyCheck(SafetyMonitorInit, GustSample(StaleStart).rpm,
                            500, 20, StaleStart)
    /\ mppt = GustController(3).mppt
    /\ integrator = GustController(3).integrator
    /\ ledcDuty = GustController(3).ledc
    /\ brakePin = GustController(3).brake
    /\ pulsePeriod = 300000
    /\ lastPulseTime = 3 * TickSpacing * 1000
    /\ dataLogger = DataLoggerInit
    /\ sdOk = TRUE
    /\ sample = [timestamp |-> StaleStart,
                 state |-> GustController(2).sm.currentState,
                 windSpeed |-> GustSample(StaleStart).windSpeed,
                 rpm |-> GustSample(StaleStart).rpm,
                 voltage |-> GustSample(StaleStart).voltage,
                 current |-> GustSample(StaleStart).current,
                 power |-> GustSample(StaleStart).power,
                 safe |-> GustSample(StaleStart).safe,
                 startState |-> GustController(2).sm.currentState,
                 events |-> GustController(3).events]
    /\ tickCount = 1
    /\ pulseCount = MaxPulses
    /\ lastCall = "construct"
    /\ windGen = NoWind
    /\ rpmCall = NoRpmCall

NextStale == LoopIdle \/ Tick

SpecStale == InitStale /\ [][NextStale]_vars

-----------------------------------------------------------------------------
(* The firmware with a bus current that can be negative (the generator     *)
(* drawing from the bus): readBusCurrent() returns a signed float.          *)

\* (V, I) in 0.1 V and 0.1 A: 50.0 V with 2.0 A, 9.6 A, 31.0 A and -31.0 A
RegenElectrical == {<<500, 20>>, <<500, 96>>, <<500, 310>>, <<500, -310>>}

TickRegen == TickOn(RegenElectrical)

NextRegen == Setup \/ RpmISR \/ LoopIdle \/ TickRegen

SpecRegen == Init /\ [][NextRegen]_vars

-----------------------------------------------------------------------------
(* MPPTController on its own: any sequence of update() and reset() calls.  *)
(* The wind passed to update() alternates between base - delta and          *)
(* base + delta (delta = 0: constant wind), so that the buffer fills.       *)

\* 8.0 m/s constant, 6.0 / 10.0 m/s alternating and 1.0 / 15.0 m/s alternating
WindPatterns ==
    {[base |-> 6552, delta |-> 0], [base |-> 6552, delta |-> 1638],
     [base |-> 6552, delta |-> 5733]}

\* 100 W and 200 W
UnitPowers == {10000, 20000}

NextWind(g, m) ==
    IF m.bufferIndex % 2 = 0 THEN g.base - g.delta ELSE g.base + g.delta

InitMPPT ==
    /\ pc = "unit"
    /\ clock = 0
    /\ lastSampleTime = 0
    /\ stateMachine = StateMachineInit
    /\ safety = SafetyMonitorInit
    /\ mppt = MPPTInit
    /\ integrator = 0
    /\ ledcDuty = 0
    /\ brakePin = LOW
    /\ pulsePeriod = 0
    /\ lastPulseTime = 0
    /\ dataLogger = DataLoggerInit
    /\ sdOk = TRUE
    /\ sample = NoSample
    /\ tickCount = 0
    /\ pulseCount = 0
    /\ lastCall = "construct"
    /\ windGen \in WindPatterns
    /\ rpmCall = NoRpmCall

UpdateCall ==
    /\ pc = "unit"
    /\ \E power \in UnitPowers :
          mppt' = MPPTUpdate(mppt, power, NextWind(windGen, mppt))
    /\ lastCall' = "update"
    /\ UNCHANGED <<pc, clock, lastSampleTime, stateMachine, safety, integrator,
                   ledcDuty, brakePin, pulsePeriod, lastPulseTime, dataLogger,
                   sdOk, sample, tickCount, pulseCount, windGen, rpmCall>>

ResetCall ==
    /\ pc = "unit"
    /\ mppt' = MPPTReset(mppt)
    /\ lastCall' = "reset"
    /\ UNCHANGED <<pc, clock, lastSampleTime, stateMachine, safety, integrator,
                   ledcDuty, brakePin, pulsePeriod, lastPulseTime, dataLogger,
                   sdOk, sample, tickCount, pulseCount, windGen, rpmCall>>

NextMPPT == UpdateCall \/ ResetCall

SpecMPPT == InitMPPT /\ [][NextMPPT]_vars

-----------------------------------------------------------------------------
(* Properties *)

regime == stateMachine.currentState

\* the sample of the last tick violates a safety threshold
SampleViolates ==
    \/ sample.rpm > OVERSPEED_RPM
    \/ sample.voltage > OVERVOLTAGE
    \/ sample.current > OVERCURRENT

\* C1: a safety flag that check() has set stays set through every later
\* check(); the firmware never calls reset(), so no step may clear a flag.
C1_FlagsLatched ==
    [][/\ safety.overspeedFlag => safety'.overspeedFlag
       /\ safety.overvoltageFlag => safety'.overvoltageFlag
       /\ safety.overcurrentFlag => safety'.overcurrentFlag]_vars

\* C2: after a tick whose sample violates a safety threshold the regime is
\* Fault, the brake is engaged and the PWM duty is 0, whatever the regime
\* was when the tick began and whatever the wind.
C2_UnsafeTickEndsInFault ==
    (tickCount > 0 /\ SampleViolates) =>
        /\ regime = STATE_FAULT
        /\ brakePin = HIGH
        /\ ledcDuty = 0

\* an unsafe tick that began in MPPT with wind above the stall threshold
C2_Witness ==
    /\ tickCount > 0
    /\ SampleViolates
    /\ sample.startState = STATE_MPPT
    /\ sample.windSpeed > StallWind
    /\ regime = STATE_FAULT

C4_InitOutcome ==
    /\ pc = "setup" => regime = STATE_IDLE
    /\ (pc = "loop" /\ tickCount = 0) =>
          regime = (IF sdOk THEN STATE_STANDBY ELSE STATE_FAULT)

\* C5: every step that enters MPPT from another regime leaves the MPPT
\* controller in its reset state.
C5_MPPTEntryResets ==
    [][(regime # STATE_MPPT /\ stateMachine'.currentState = STATE_MPPT) =>
          /\ mppt'.dutyCycle = INIT_DUTY
          /\ mppt'.direction = 1
          /\ mppt'.lastPower = 0
          /\ mppt'.sampleCount = 0]_vars

\* C6: after any sequence of update() and reset() calls the duty cycle is
\* in [0.1, 0.9], the direction is -1 or +1, the write index is in [0, 100)
\* and the sample count in [0, 100]; an update() never decreases the sample
\* count and leaves it at 100 once it is 100.
C6_MPPTInvariants ==
    /\ [](/\ mppt.dutyCycle >= DUTY_MIN
          /\ mppt.dutyCycle <= DUTY_MAX
          /\ mppt.direction \in {-1, 1}
          /\ mppt.bufferIndex \in 0 .. (WIND_BUFFER_SIZE - 1)
          /\ mppt.sampleCount \in 0 .. WIND_BUFFER_SIZE)
    /\ [][lastCall' = "update" =>
            /\ mppt'.sampleCount >= mppt.sampleCount
            /\ (mppt.sampleCount = WIND_BUFFER_SIZE =>
                    mppt'.sampleCount = WIND_BUFFER_SIZE)]_vars

\* an update() on a full buffer that the upper limit clamped
C6_Witness ==
    /\ pc = "unit"
    /\ lastCall = "update"
    /\ mppt.sampleCount = WIND_BUFFER_SIZE
    /\ mppt.bufferIndex = 1
    /\ mppt.dutyCycle = DUTY_MAX
    /\ mppt.direction = 1

\* C7: whenever a tick ends in Standby the PWM duty is 0 and the brake is
\* released.
C7_StandbyOutputs ==
    (tickCount > 0 /\ regime = STATE_STANDBY) =>
        (ledcDuty = 0 /\ brakePin = LOW)

\* C8: whenever a tick ends in Stall the dump load is at 100% and the brake
\* is released.
C8_StallOutputs ==
    (tickCount > 0 /\ regime = STATE_STALL) =>
        (ledcDuty = LEDC_MAX /\ brakePin = LOW)

\* C9: a tick that begins in MPPT with a safe sample, wind below cut-in,
\* power below 0.95 * rated and wind not above the stall threshold ends in
\* Standby.
C9_MPPTToStandby ==
    (/\ tickCount > 0
     /\ sample.startState = STATE_MPPT
     /\ sample.safe
     /\ sample.windSpeed < CutInWind
     /\ sample.power < RatedPower95
     /\ ~(sample.windSpeed > StallWind)) =>
        regime = STATE_STANDBY

\* C10: a tick that begins in PowerRegulation with a safe sample and wind
\* above the stall threshold ends in Stall.
C10_PowerRegToStall ==
    (/\ tickCount > 0
     /\ sample.startState = STATE_POWER_REGULATION
     /\ sample.safe
     /\ sample.windSpeed > StallWind) =>
        regime = STATE_STALL

\* C11 as stated: in a tick that begins in MPPT with a safe sample and wind
\* not above the stall threshold, the regime becomes PowerRegulation if and
\* only if power >= 0.95 * rated, so the transition fires at exactly 475 W.
C11_Original ==
    (/\ tickCount > 0
     /\ sample.startState = STATE_MPPT
     /\ sample.safe
     /\ ~(sample.windSpeed > StallWind)) =>
        (regime = STATE_POWER_REGULATION <=> sample.power >= RatedPower95)

\* C11: in a tick that begins in MPPT with a safe sample and wind not above
\* the stall threshold, the regime becomes PowerRegulation if and only if
\* power > 0.95 * rated strictly; at exactly 475 W the regime stays MPPT.
C11_PowerRegEntryStrict ==
    (/\ tickCount > 0
     /\ sample.startState = STATE_MPPT
     /\ sample.safe
     /\ ~(sample.windSpeed > StallWind)) =>
        /\ regime = STATE_POWER_REGULATION <=> sample.power > RatedPower95
        /\ sample.power <= RatedPower95 => regime = STATE_MPPT

\* a tick that began in MPPT with exactly 475 W and stayed in MPPT
C11_Witness ==
    /\ tickCount > 0
    /\ sample.startState = STATE_MPPT
    /\ sample.safe
    /\ ~(sample.windSpeed > StallWind)
    /\ sample.power = RatedPower95
    /\ regime = STATE_MPPT

\* C12: in a tick that begins in PowerRegulation with a safe sample, the
\* regime returns to MPPT if and only if power < 0.80 * rated strictly; at
\* exactly 400 W and anywhere in [0.80, 0.95] * rated it stays
\* PowerRegulation.
C12_PowerRegExitStrict ==
    (/\ tickCount > 0
     /\ sample.startState = STATE_POWER_REGULATION
     /\ sample.safe) =>
        /\ regime = STATE_MPPT <=> sample.power < RatedPower80
        /\ (sample.power >= RatedPower80 /\ sample.power <= RatedPower95) =>
               regime = STATE_POWER_REGULATION

\* a tick that began in PowerRegulation with exactly 400 W and stayed there
C12_Witness ==
    /\ tickCount > 0
    /\ sample.startState = STATE_POWER_REGULATION
    /\ sample.safe
    /\ sample.power = RatedPower80
    /\ regime = STATE_POWER_REGULATION

\* C13: a tick that begins in MPPT with a safe sample, power at or above
\* 0.95 * rated and wind above the stall threshold ends in Stall, not in
\* PowerRegulation.
C13_StallOverPowerReg ==
    (/\ tickCount > 0
     /\ sample.startState = STATE_MPPT
     /\ sample.safe
     /\ sample.power >= RatedPower95
     /\ sample.windSpeed > StallWind) =>
        regime = STATE_STALL

\* a tick in MPPT where both tests fired: PowerRegulation was entered and
\* left for Stall within the tick
C13_Witness ==
    /\ tickCount > 0
    /\ sample.startState = STATE_MPPT
    /\ sample.safe
    /\ sample.power > RatedPower95
    /\ sample.windSpeed > StallWind
    /\ stateMachine.previousState = STATE_POWER_REGULATION
    /\ regime = STATE_STALL

\* C14: a tick that begins in Standby with a freshly initialised MPPT
\* controller, a safe sample, wind above cut-in and positive power ends in
\* MPPT with the update run in that tick: duty 0.3 + 0.02 = 0.32, written
\* to the PWM.
C14_EntryTickRunsUpdate ==
    [][(/\ tickCount' = tickCount + 1
        /\ regime = STATE_STANDBY
        /\ mppt = MPPTInit
        /\ sample'.safe
        /\ sample'.windSpeed > CutInWind
        /\ sample'.power > 0) =>
           /\ stateMachine'.currentState = STATE_MPPT
           /\ mppt'.dutyCycle = INIT_DUTY + BASE_STEP_SIZE
           /\ ledcDuty' = LedcOf(INIT_DUTY + BASE_STEP_SIZE)]_vars

\* C15: whenever the regime is Fault the soft-stall integrator is 0.
C15_FaultResetsIntegrator ==
    regime = STATE_FAULT => integrator = 0

\* C17: once a transition has happened, the transition log holds it: its
\* "to" is the current regime and its "from" the regime just left.
C17_TransitionLogged ==
    regime # STATE_IDLE =>
        /\ stateMachine.lastTransition.toState = regime
        /\ stateMachine.lastTransition.fromState = stateMachine.previousState

\* C19: in the steps of every tick no actuator write comes before the
\* evaluation of a transition condition.
C19_EvaluationBeforeActuation ==
    \A i, j \in DOMAIN sample.events :
        (i < j /\ sample.events[i] = "write") => sample.events[j] # "eval"

C16_TimestampsNonDecreasing ==
    [][tickCount' = tickCount + 1 =>
          ULongLeq(sample.timestamp, sample'.timestamp)]_vars

\* C20: when a call of calculateRPM() has divided, the divisor is the value
\* it tested against 0, and so is not 0; a tested 0 gives rpm 0.
C20_SingleLoad ==
    rpmCall.pos = "done" =>
        /\ rpmCall.divided =>
              (rpmCall.period = rpmCall.tested /\ rpmCall.period # 0)
        /\ rpmCall.tested = 0 => rpmCall.rpm = 0

\* C21: a tick reads rpm 0 when the pulse period is 0 or when no edge has
\* arrived for more than 2 s, and such a tick in Stall with a safe sample
\* leaves Stall for Standby.
C21_StaleRpmIsZero ==
    /\ (tickCount > 0 /\ pulsePeriod = 0) => sample.rpm = 0
    /\ (sample.timestamp - StaleStart > 2 * SAMPLE_PERIOD
            /\ lastPulseTime <= StaleStart * 1000) =>
          /\ sample.rpm = 0
          /\ (sample.startState = STATE_STALL /\ sample.safe) =>
                 regime = STATE_STANDBY

\* C22: a tick whose bus current has a magnitude above the overcurrent
\* threshold, whatever its sign, sets the overcurrent flag and ends in Fault.
C22_CurrentMagnitude ==
    (tickCount > 0
        /\ (sample.current > OVERCURRENT \/ 0 - sample.current > OVERCURRENT)) =>
        /\ safety.overcurrentFlag
        /\ regime = STATE_FAULT

\* C23: at the end of every tick the brake is engaged only if the regime is
\* Fault, and whenever it is engaged the PWM duty is 0.
C23_BrakeOnlyInFault ==
    (tickCount > 0 /\ brakePin = HIGH) =>
        (regime = STATE_FAULT /\ ledcDuty = 0)

\* an unsafe tick that began in Stall, with the dump load at 100%, has
\* ended in Fault with the brake engaged and the duty at 0
C23_Witness ==
    /\ tickCount > 0
    /\ sample.startState = STATE_STALL
    /\ ~sample.safe
    /\ brakePin = HIGH
    /\ ledcDuty = 0
    /\ regime = STATE_FAULT

\* C24: the regime tag a tick hands to dataLogger.log is the regime whose
\* handler the tick dispatched: the regime the tick began in when the sample
\* is safe, also when the handler then changes the regime, and FAULT when
\* the sample is unsafe.
C24_LoggedRegime ==
    tickCount > 0 =>
        sample.state = (IF sample.safe THEN sample.startState ELSE STATE_FAULT)

\* a tick that went from Standby to MPPT and logged STANDBY
C24_Witness ==
    /\ tickCount > 0
    /\ sample.safe
    /\ sample.startState = STATE_STANDBY
    /\ sample.state = STATE_STANDBY
    /\ regime = STATE_MPPT

=============================================================================
